---- MODULE Spec2Model ----
(***************************************************************************)
(* A model of the CSV/Excel to PostgreSQL importer (src/utils.py,          *)
(* src/import_data_pro.py).                                                *)
(*                                                                         *)
(* Four specifications share this module:                                  *)
(*   Spec      the command-line run: dry run, connection, CSV import       *)
(*             (single-shot or chunked inside one transaction) and         *)
(*             multi-sheet workbook import, against a destination that     *)
(*             holds tables;                                               *)
(*   SpecChunks import_in_chunks called on its own, with the arguments a   *)
(*             caller can pass and a destination that may refuse the write *)
(*             of any chunk;                                               *)
(*   SpecSan   the name sanitizer applied to bounded sets of names;        *)
(*   SpecInfer the column type inferencer applied to bounded columns.      *)
(*                                                                         *)
(* Strings the code inspects character by character are sequences of       *)
(* one-character strings.                                                  *)
(***************************************************************************)
EXTENDS Integers, Sequences, FiniteSets, TLC

VARIABLES
    \* ---- the command-line run (Spec)
    args,        \* parsed arguments: if_exists, strict_schema, dry_run
    file,        \* the file at args.file
    db,          \* committed destination state: table name -> table or NoTable
    db0,         \* history: the destination state when the run started
    tx,          \* the open transaction's view of the destination, or NoTx
    pc,          \* position of main()
    err,         \* the failure main() reported, or "none"
    calls,       \* history: the destination calls issued so far, in order
    refused,     \* history: the destination was set to refuse some write
    schema,      \* the schema import_csv_file inferred: the dtype argument
    chunk_size,  \* import_in_chunks: its chunk_size argument
    chunk_i,     \* import_in_chunks: index of the next chunk
    sheet_i,     \* import_excel_file: index of the next entry of sheets
    sheets,      \* import_excel_file: what load_excel_sheets returned
    successful_imports,
    sheetLog,    \* history: one outcome per entry of sheets, in order
    \* ---- the sanitizer (SpecSan)
    sanPc, sheetName, reqTable, safe_name, safe_twice, full_table_name,
    \* ---- the type inferencer (SpecInfer)
    infPc, column, inferred,
    \* ---- the installation
    pandas_major,   \* the major version of the installed pandas
    stdout_encodes  \* sys.stdout's encoding has the characters of the messages

runVars == <<args, file, db, db0, tx, pc, err, calls, refused, schema, chunk_i,
             sheet_i, sheets, successful_imports, sheetLog>>
sanVars == <<sanPc, sheetName, reqTable, safe_name, safe_twice, full_table_name>>
infVars == <<infPc, column, inferred>>
\* set when a behaviour starts and never assigned
fixedVars == <<chunk_size, pandas_major, stdout_encodes>>
vars == <<runVars, sanVars, infVars, fixedVars>>

Min(a, b) == IF a < b THEN a ELSE b

\* every sequence over S of length at most n
SeqUpTo(S, n) == UNION {[1..k -> S] : k \in 0..n}

\* n copies of x
Rep(x, n) == [i \in 1..n |-> x]

(***************************************************************************)
(* Name sanitizer: sanitize_table_name, src/utils.py 159-165               *)
(***************************************************************************)
LowerSeq == <<"a","b","c","d","e","f","g","h","i","j","k","l","m",
              "n","o","p","q","r","s","t","u","v","w","x","y","z">>
UpperSeq == <<"A","B","C","D","E","F","G","H","I","J","K","L","M",
              "N","O","P","Q","R","S","T","U","V","W","X","Y","Z">>
LowerLetters == {LowerSeq[i] : i \in 1..26}
UpperLetters == {UpperSeq[i] : i \in 1..26}
Digits == {"0","1","2","3","4","5","6","7","8","9"}

\* the character class [a-zA-Z0-9_] of the regular expression
IdentChars == LowerLetters \cup UpperLetters \cup Digits \cup {"_"}

\* str.isalpha() on a character that survived the substitution (ASCII)
isalpha(c) == c \in LowerLetters \cup UpperLetters

\* str.lower() on one character
lower_char(c) ==
    IF c \in UpperLetters
    THEN LowerSeq[CHOOSE i \in 1..26 : UpperSeq[i] = c]
    ELSE c

lower(s) == [i \in 1..Len(s) |-> lower_char(s[i])]

\* re.sub(r"[^a-zA-Z0-9_]", "_", name)
re_sub_non_ident(name) ==
    [i \in 1..Len(name) |-> IF name[i] \in IdentChars THEN name[i] ELSE "_"]

RECURSIVE lstrip(_, _)
lstrip(s, c) == IF s # <<>> /\ Head(s) = c THEN lstrip(Tail(s), c) ELSE s

RECURSIVE rstrip(_, _)
rstrip(s, c) ==
    IF s # <<>> /\ s[Len(s)] = c THEN rstrip(SubSeq(s, 1, Len(s) - 1), c) ELSE s

\* str.strip("_")
strip(s, c) == rstrip(lstrip(s, c), c)

SheetPrefix == <<"s","h","e","e","t","_">>

\* the default of sanitize_table_name's max_length parameter
MaxLength == 63

sanitize_table_name(name, max_length) ==
    LET n1 == re_sub_non_ident(name)
        n2 == strip(n1, "_")
        n3 == IF n2 = <<>> \/ (~isalpha(n2[1]) /\ n2[1] # "_")
              THEN SheetPrefix \o n2
              ELSE n2
    IN  lower(SubSeq(n3, 1, Min(max_length, Len(n3))))

\* f"{table_name}_{safe_name}", src/import_data_pro.py 98
compose_table_name(table_name, safe) == table_name \o <<"_">> \o safe

\* ^[a-z_][a-z0-9_]*$ and at most 63 characters
IsIdentifier(s) ==
    /\ Len(s) >= 1
    /\ Len(s) <= MaxLength
    /\ s[1] \in LowerLetters \cup {"_"}
    /\ \A i \in 1..Len(s) : s[i] \in LowerLetters \cup Digits \cup {"_"}

(***************************************************************************)
(* Type inferencer: infer_column_type, src/utils.py 66-105                 *)
(*                                                                         *)
(* A column is its pandas dtype and its cells.  A cell is either missing   *)
(* (NA) or the outcome of the three tests the code applies to its string   *)
(* form: int (matches ^-?\d+$), float (float() accepts it), date (the      *)
(* date format to_datetime reads it in, or "none").  Whatever matches the  *)
(* integer pattern is accepted by float().                                 *)
(***************************************************************************)
NA == [na |-> TRUE, int |-> FALSE, float |-> FALSE, date |-> "none"]

\* two date formats, such as 2024-01-31 and 01/31/2024
DateFormats == {"iso", "us"}

Cells == {[na |-> FALSE, int |-> i, float |-> f, date |-> d] :
              i \in BOOLEAN, f \in BOOLEAN, d \in DateFormats \cup {"none"}}

ValueCells == {c \in Cells : c.int => c.float}

Dtypes == {"int64", "float64", "bool", "datetime64", "object"}

\* pd.api.types.is_*_dtype
is_integer_dtype(dtype) == dtype = "int64"
is_float_dtype(dtype) == dtype = "float64"
is_bool_dtype(dtype) == dtype = "bool"
is_datetime64_any_dtype(dtype) == dtype = "datetime64"

\* Series.dropna()
dropna(vals) == SelectSeq(vals, LAMBDA c : c # NA)

\* Series.head(n)
head(vals, n) == SubSeq(vals, 1, Min(n, Len(vals)))

\* the argument of head() in infer_column_type
SampleSize == 100

\* column.dropna().astype(str).head(100)
take_sample(vals) == head(dropna(vals), SampleSize)

\* sample.str.match(r"^-?\d+$").all()
all_match_int(sample) == \A i \in 1..Len(sample) : sample[i].int

\* sample.astype(float) does not raise
astype_float_ok(sample) == \A i \in 1..Len(sample) : sample[i].float

\* the requirements pin no pandas version: 1.x or 2.x
PandasMajors == {1, 2}

\* pd.to_datetime(sample, errors="raise") does not raise.  The one call
\* parses the whole sample: pandas 1.x reads each value on its own; pandas
\* 2.x takes the format of the first value and raises on a value that is
\* not in that format.
to_datetime_ok(sample) ==
    IF pandas_major >= 2 /\ sample # <<>>
    THEN /\ sample[1].date # "none"
         /\ \A i \in 1..Len(sample) : sample[i].date = sample[1].date
    ELSE \A i \in 1..Len(sample) : sample[i].date # "none"

classify_sample(sample) ==
    IF sample = <<>> THEN "TEXT"
    ELSE IF all_match_int(sample) THEN "BIGINT"
    ELSE IF astype_float_ok(sample) THEN "DOUBLE PRECISION"
    ELSE IF to_datetime_ok(sample) THEN "TIMESTAMP"
    ELSE "TEXT"

infer_column_type(col) ==
    IF is_integer_dtype(col.dtype) THEN "BIGINT"
    ELSE IF is_float_dtype(col.dtype) THEN "DOUBLE PRECISION"
    ELSE IF is_bool_dtype(col.dtype) THEN "BOOLEAN"
    ELSE IF is_datetime64_any_dtype(col.dtype) THEN "TIMESTAMP"
    ELSE classify_sample(take_sample(col.vals))

\* infer_schema, src/utils.py 107-109: cols maps column names to columns; a
\* schema is the set of <<column name, type>> pairs
infer_schema(cols) == {<<c, infer_column_type(cols[c])>> : c \in DOMAIN cols}

\* the keys of a schema
Keys(sch) == {p[1] : p \in sch}

(***************************************************************************)
(* Files and frames                                                        *)
(*                                                                         *)
(* A frame (pandas DataFrame) is its columns, its row count and what the   *)
(* validators read of its column names and cells.                          *)
(***************************************************************************)
IntCol == [dtype |-> "int64", vals |-> <<>>]
TextCell == [na |-> FALSE, int |-> FALSE, float |-> FALSE, date |-> "none"]
IntCell == [na |-> FALSE, int |-> TRUE, float |-> TRUE, date |-> "none"]
TextCol == [dtype |-> "object", vals |-> <<TextCell>>]
IntStrCol == [dtype |-> "object", vals |-> <<IntCell, IntCell>>]

Frame(cols, nrows, nullNames, badNames, allBlank) ==
    [cols |-> cols, nrows |-> nrows, null_names |-> nullNames,
     bad_names |-> badNames, all_blank |-> allBlank]

\* validate_dataframe, src/utils.py 38-51: TRUE, or FALSE for a raise
validate_dataframe(df) ==
    IF df.nrows = 0 THEN FALSE                     \* df.empty
    ELSE IF df.null_names # "none" THEN FALSE      \* columns.isnull().any()
    ELSE IF df.bad_names THEN FALSE                \* blank or control chars
    ELSE TRUE

\* is_valid_sheet, src/utils.py 53-63
is_valid_sheet(df) ==
    IF df.nrows = 0 THEN FALSE
    ELSE IF Cardinality(DOMAIN df.cols) < 2 THEN FALSE
    ELSE IF df.null_names = "all" THEN FALSE
    ELSE IF df.all_blank THEN FALSE
    ELSE TRUE

is_excel(f) == f.ext \in {"xlsx", "xls"}

\* load_file, src/utils.py 9-19: what the call ends with
load_file(f) ==
    IF f.ext = "csv" THEN (IF f.readable THEN "ok" ELSE "ReadError")
    ELSE IF is_excel(f) THEN (IF f.readable THEN "ok" ELSE "ReadError")
    ELSE "Unsupported"

\* load_excel_sheets, src/utils.py 21-35: the sheets that parse, in workbook
\* order (the caller has checked that the workbook opens)
load_excel_sheets(f) == SelectSeq(f.sheets, LAMBDA sh : sh.readable)

\* the default of is_large_csv's threshold_mb parameter
ThresholdMb == 200

\* is_large_csv, src/utils.py 131-136
is_large_csv(f) ==
    IF f.ext # "csv" THEN FALSE
    ELSE f.size > ThresholdMb * 1024 * 1024

(***************************************************************************)
(* The destination: table name -> table.  A table's rows are a sequence    *)
(* of segments lo..hi of source row numbers; a row that was there before   *)
(* the run is the segment 0..0.                                            *)
(***************************************************************************)
NoTable == [exists |-> FALSE, cols |-> {}, rows |-> <<>>]

Seg(lo, hi) == [lo |-> lo, hi |-> hi]

RECURSIVE RowCount(_)
RowCount(rows) ==
    IF rows = <<>> THEN 0
    ELSE (Head(rows).hi - Head(rows).lo + 1) + RowCount(Tail(rows))

\* inserting no row adds no segment
Insert(rows, seg) == IF seg.hi < seg.lo THEN rows ELSE Append(rows, seg)

\* The column types pandas accepts in to_sql's dtype argument are SQLAlchemy
\* type objects or classes; infer_column_type returns the strings "BIGINT",
\* "DOUBLE PRECISION", "BOOLEAN", "TIMESTAMP" and "TEXT".
SqlAlchemyTypes ==
    {"sqlalchemy.BigInteger", "sqlalchemy.Float", "sqlalchemy.Boolean",
     "sqlalchemy.DateTime", "sqlalchemy.Text"}

\* pandas' check of the dtype argument, made before any statement is sent:
\* an empty dtype is not checked, any other must hold SQLAlchemy types only
dtype_accepted(dtype) == \A p \in dtype : p[2] \in SqlAlchemyTypes

\* what to_sql does once the dtype argument is accepted, on the table as con
\* sees it; dbOk = FALSE is a write the destination refuses
write_table(tbl, seg, dtype, mode, dbOk) ==
    LET created == [exists |-> TRUE, cols |-> dtype, rows |-> Insert(<<>>, seg)]
        appended == [tbl EXCEPT !.rows = Insert(tbl.rows, seg)]
    IN  IF ~tbl.exists
        THEN (IF dbOk THEN [ok |-> TRUE, table |-> created]
              ELSE [ok |-> FALSE, table |-> tbl])
        ELSE IF mode = "fail" THEN [ok |-> FALSE, table |-> tbl]
        ELSE IF ~dbOk THEN [ok |-> FALSE, table |-> tbl]
        ELSE IF mode = "replace" THEN [ok |-> TRUE, table |-> created]
        ELSE IF Keys(dtype) \subseteq Keys(tbl.cols)
             THEN [ok |-> TRUE, table |-> appended]
             ELSE [ok |-> FALSE, table |-> tbl]

\* DataFrame.to_sql(name, con, if_exists=mode, index=False, dtype=schema):
\* whether the call returned, and the table afterwards.  With a dtype that
\* is not accepted the call raises ValueError("The type of <column> is not
\* a SQLAlchemy type") and nothing reaches the destination.
to_sql(tbl, seg, dtype, mode, dbOk) ==
    IF ~dtype_accepted(dtype)
    THEN [ok |-> FALSE, table |-> tbl]
    ELSE write_table(tbl, seg, dtype, mode, dbOk)

\* table_exists asking the wrong catalog: no table is ever found
table_exists_never(d, name) == FALSE

\* table_exists, src/utils.py 167-170
table_exists(d, name) == d[name].exists

\* check_schema_compatibility comparing the column types as well
check_schema_compatibility_typed(d, name, new_schema) ==
    IF ~d[name].exists THEN TRUE ELSE d[name].cols = new_schema

\* check_schema_compatibility, src/utils.py 111-128: TRUE, or FALSE for the
\* raise of "Schema mismatch"
check_schema_compatibility(d, name, new_schema) ==
    IF ~d[name].exists THEN TRUE
    ELSE LET existing == d[name].cols
             missing == Keys(existing) \ Keys(new_schema)
             extra == Keys(new_schema) \ Keys(existing)
         IN  IF missing # {} \/ extra # {} THEN FALSE ELSE TRUE

\* destination calls, as recorded in calls
Call(op, table, mode, chunk) ==
    [op |-> op, table |-> table, if_exists |-> mode, chunk |-> chunk]
CallConnect == Call("connect", <<>>, "-", -1)
CallTableNames == Call("get_table_names", <<>>, "-", -1)
CallColumns(t) == Call("get_columns", t, "-", -1)
CallBegin == Call("begin", <<>>, "-", -1)
CallCommit == Call("commit", <<>>, "-", -1)
CallRollback == Call("rollback", <<>>, "-", -1)
CallToSql(t, mode, chunk) == Call("to_sql", t, mode, chunk)

\* The safety checks both import paths apply before writing
\* (src/import_data_pro.py 101-108 and 137-143): what they end with and the
\* catalog reads they make.
safety_checks(d, a, name, new_schema) ==
    LET failRead == IF a.if_exists = "fail" THEN <<CallTableNames>> ELSE <<>>
        strictRead ==
            IF ~a.strict_schema THEN <<>>
            ELSE IF table_exists(d, name)
                 THEN <<CallTableNames, CallTableNames, CallColumns(name)>>
                 ELSE <<CallTableNames>>
    IN  IF a.if_exists = "fail" /\ table_exists(d, name)
        THEN [outcome |-> "TableExists", reads |-> failRead]
        ELSE IF a.strict_schema /\ table_exists(d, name)
                /\ ~check_schema_compatibility(d, name, new_schema)
             THEN [outcome |-> "SchemaMismatch", reads |-> failRead \o strictRead]
             ELSE [outcome |-> "ok", reads |-> failRead \o strictRead]

(***************************************************************************)
(* Chunked transactional loader: import_in_chunks, src/utils.py 138-156    *)
(***************************************************************************)
\* the default of import_in_chunks' chunk_size parameter
ChunkSize == 50000

\* the number of frames pd.read_csv(file_path, chunksize=cs) yields for a
\* file of n rows (a file of no rows yields one empty frame)
num_chunks(n, cs) == IF n = 0 THEN 1 ELSE (n + cs - 1) \div cs

\* the rows of chunk i (counted from 0)
chunk_seg(i, n, cs) == Seg(i * cs + 1, Min((i + 1) * cs, n))

\* chunk_mode with the policy applied to every chunk
chunk_mode_every_chunk(i, if_exists) == if_exists

\* if_exists="append" if i > 0 else if_exists
chunk_mode(i, if_exists) == IF i > 0 THEN "append" ELSE if_exists

\* rollback on a connection that commits each statement as it runs
rollback_autocommit(d, view) == view

\* leaving "with engine.begin() as connection" by an exception: the
\* destination keeps its committed state
rollback(d, view) == d

\* leaving "with engine.begin() as connection" normally
commit(d, view) == view

\* src/utils.py 154-156: the except clause logs the failure and raises it
\* again
except_clause(e) == [raised |-> TRUE, error |-> e]

(***************************************************************************)
(* Messages.  The messages main, import_csv_file, import_excel_file and    *)
(* dry_run_analysis print hold characters outside ASCII; print raises      *)
(* UnicodeEncodeError when sys.stdout's encoding lacks them.               *)
(***************************************************************************)
\* print(message) followed by sys.exit or by the end of main, where a raise
\* is not caught or is caught by main's except clause (src/import_data_pro.py
\* 82-85), whose own print raises again: the position main ends in
print_then(exit) == IF stdout_encodes THEN exit ELSE "crashed"

\* the failure main ends with after print(message): e, or the encoding error
err_after_print(e) == IF stdout_encodes THEN e ELSE "UnicodeEncodeError"

(***************************************************************************)
(* Dry run: dry_run_analysis, src/utils.py 173-211                         *)
(***************************************************************************)
\* the body of the try block: "none", or the failure it raises
dry_run_pipeline(f) ==
    IF is_excel(f)
    THEN (IF f.readable THEN "none" ELSE "ReadError")
    ELSE IF load_file(f) # "ok" THEN load_file(f)
    ELSE IF ~validate_dataframe(f.frame) THEN "InvalidInput"
    ELSE "none"

\* what the call ends with: "True", "False", or "raise".  The banner is
\* printed at line 175, before the try block.
dry_run_analysis(f) ==
    IF ~stdout_encodes THEN "raise"
    ELSE IF dry_run_pipeline(f) = "none" THEN "True"
    ELSE "False"

\* main, src/import_data_pro.py 47-51: where the dry-run branch leaves main
after_dry_run(r) ==
    IF r = "True" THEN "exit0"
    ELSE IF r = "False" THEN "exit1"
    ELSE "crashed"

(***************************************************************************)
(* Inputs of the command-line run                                          *)
(***************************************************************************)
MaxChunks == 3
MaxSheets == 2

Policies == {"replace", "append", "fail"}

\* --table
RequestedTable == <<"t">>

\* sheet names; "a" and "a-" sanitize to the same identifier
SheetNames == {<<"a">>, <<"a", "-">>, <<"b">>}

SheetTable(name) ==
    compose_table_name(RequestedTable, sanitize_table_name(name, MaxLength))

Tables == {RequestedTable} \cup {SheetTable(n) : n \in SheetNames}

ColsA == [id |-> IntCol, name |-> TextCol]
ColsB == [id |-> TextCol, name |-> TextCol]     \* the names of ColsA, other types
ColsC == [id |-> IntStrCol]                     \* one column
ColsD == [id |-> IntCol, qty |-> IntCol]        \* other names

NoFrame == Frame(ColsC, 0, "none", FALSE, FALSE)

\* row counts on both sides of every chunk boundary
RowCounts ==
    {0, 1} \cup {k * ChunkSize + d : k \in 1..(MaxChunks - 1), d \in {0, 1}}

Sizes == {ThresholdMb * 1024 * 1024, ThresholdMb * 1024 * 1024 + 1}

File(ext, readable, frame, size, shs) ==
    [ext |-> ext, readable |-> readable, frame |-> frame, size |-> size,
     sheets |-> shs]

CsvFiles ==
    {File("csv", TRUE, Frame(c, n, "none", FALSE, FALSE), sz, <<>>) :
        c \in {ColsA, ColsB, ColsC}, n \in RowCounts, sz \in Sizes}
    \cup {File("csv", TRUE, Frame(ColsA, 1, "none", TRUE, FALSE), 1, <<>>),
          File("csv", TRUE, Frame(ColsA, 1, "some", FALSE, FALSE), 1, <<>>),
          File("csv", FALSE, NoFrame, 1, <<>>),
          File("txt", TRUE, NoFrame, 1, <<>>)}

SheetFrames ==
    {Frame(ColsA, 1, "none", FALSE, FALSE),     \* tabular
     Frame(ColsD, 1, "none", FALSE, FALSE),     \* tabular, other columns
     Frame(ColsC, 1, "none", FALSE, FALSE)}     \* a single column

Sheet(name, readable, frame) ==
    [name |-> name, readable |-> readable, frame |-> frame]

SheetsOfWorkbooks ==
    {Sheet(n, TRUE, fr) : n \in SheetNames, fr \in SheetFrames}
    \cup {Sheet(n, FALSE, NoFrame) : n \in SheetNames}

\* a workbook's sheet names are distinct
Workbooks ==
    {w \in SeqUpTo(SheetsOfWorkbooks, MaxSheets) :
        \A i, j \in 1..Len(w) : i # j => w[i].name # w[j].name}

ExcelFiles ==
    {File("xlsx", TRUE, NoFrame, 1, w) : w \in Workbooks}
    \cup {File("xlsx", FALSE, NoFrame, 1, <<>>)}

Files == CsvFiles \cup ExcelFiles

OldRow == Seg(0, 0)
Existing(cols) == [exists |-> TRUE, cols |-> infer_schema(cols), rows |-> <<OldRow>>]

\* the destination before the run: the requested table matters to a CSV
\* run, the sheets' tables to a workbook run
InitialDbs(f) ==
    {d \in [Tables -> {NoTable, Existing(ColsA), Existing(ColsC)}] :
        IF is_excel(f)
        THEN d[RequestedTable] = NoTable
             /\ \A t \in Tables : d[t] # Existing(ColsC)
        ELSE \A t \in Tables \ {RequestedTable} : d[t] = NoTable}

EmptyDb == [t \in Tables |-> NoTable]
NoTx == [open |-> FALSE, view |-> EmptyDb]

Exits == {"exit0", "exit1", "crashed"}

sanIdle ==
    /\ sanPc = "idle" /\ sheetName = <<>> /\ reqTable = <<>>
    /\ safe_name = <<>> /\ safe_twice = <<>> /\ full_table_name = <<>>

infIdle == infPc = "idle" /\ column = [dtype |-> "object", vals |-> <<>>]
           /\ inferred = "-"

runIdle ==
    /\ args = [table |-> RequestedTable, if_exists |-> "replace",
               strict_schema |-> FALSE, dry_run |-> FALSE]
    /\ file = File("txt", TRUE, NoFrame, 1, <<>>)
    /\ db = EmptyDb /\ db0 = EmptyDb /\ tx = NoTx
    /\ pc = "idle" /\ err = "none" /\ calls = <<>> /\ refused = FALSE
    /\ schema = {} /\ chunk_size = ChunkSize
    /\ chunk_i = 0 /\ sheet_i = 0 /\ sheets = <<>>
    /\ successful_imports = 0 /\ sheetLog = <<>>

Init ==
    /\ pandas_major \in PandasMajors
    /\ stdout_encodes \in BOOLEAN
    /\ args \in [table : {RequestedTable}, if_exists : Policies,
                 strict_schema : BOOLEAN, dry_run : BOOLEAN]
    /\ file \in Files
    /\ db \in InitialDbs(file)
    /\ db0 = db
    /\ tx = NoTx
    /\ pc = "main" /\ err = "none" /\ calls = <<>> /\ refused = FALSE
    /\ schema = {} /\ chunk_size = ChunkSize
    /\ chunk_i = 0 /\ sheet_i = 0 /\ sheets = <<>>
    /\ successful_imports = 0 /\ sheetLog = <<>>
    /\ sanIdle /\ infIdle

(***************************************************************************)
(* main, src/import_data_pro.py 23-85                                      *)
(***************************************************************************)
loopVars == <<chunk_i, sheet_i, sheets, successful_imports, sheetLog>>

\* lines 46-51: the dry-run branch, taken before any destination is set up
DryRunStep ==
    /\ pc = "main"
    /\ IF args.dry_run
       THEN /\ pc' = after_dry_run(dry_run_analysis(file))
            /\ err' = IF dry_run_analysis(file) = "True" THEN "none"
                      ELSE IF dry_run_analysis(file) = "False" THEN "WouldFail"
                      ELSE "UnicodeEncodeError"
       ELSE pc' = "setup" /\ err' = err
    /\ UNCHANGED <<args, file, db, db0, tx, calls, refused, schema, loopVars,
                   sanVars, infVars, fixedVars>>

\* lines 53-69: DATABASE_URL, create_engine and the test connection
Setup ==
    /\ pc = "setup"
    /\ \E env \in {"no_url", "bad_url", "connect_fails", "ok"} :
          IF env = "no_url"
          THEN pc' = print_then("exit1") /\ err' = "NoUrl" /\ calls' = calls
          ELSE IF env = "bad_url"
          THEN \* create_engine raises
               /\ pc' = print_then("exit1") /\ err' = "ConnectFailed"
               /\ calls' = calls
          ELSE IF env = "connect_fails"
          THEN pc' = print_then("exit1") /\ err' = "ConnectFailed"
               /\ calls' = Append(calls, CallConnect)
          ELSE pc' = "import" /\ err' = err
               /\ calls' = Append(calls, CallConnect)
    /\ UNCHANGED <<args, file, db, db0, tx, refused, schema, loopVars, sanVars,
                   infVars, fixedVars>>

(***************************************************************************)
(* import_csv_file, src/import_data_pro.py 131-158.  A raise ends in       *)
(* main's except clause (lines 82-85): exit status 1.                      *)
(***************************************************************************)
ImportCsvFile ==
    /\ pc = "import" /\ ~is_excel(file)
    /\ LET name == args.table
           df == file.frame
           inferred_schema == infer_schema(df.cols)
           chk == safety_checks(db, args, name, inferred_schema)
       IN  IF load_file(file) # "ok"
           THEN /\ pc' = print_then("exit1") /\ err' = load_file(file)
                /\ UNCHANGED <<db, calls, refused, schema>>
           ELSE IF ~validate_dataframe(df)
           THEN /\ pc' = print_then("exit1") /\ err' = "InvalidInput"
                /\ UNCHANGED <<db, calls, refused, schema>>
           ELSE IF chk.outcome # "ok"
           THEN /\ pc' = print_then("exit1") /\ err' = chk.outcome
                /\ schema' = inferred_schema
                /\ calls' = calls \o chk.reads
                /\ UNCHANGED <<db, refused>>
           ELSE IF is_large_csv(file)
           THEN \* line 147: the call of import_in_chunks, chunk_size left
                \* at its default
                /\ pc' = "import_in_chunks" /\ err' = err
                /\ schema' = inferred_schema
                /\ calls' = calls \o chk.reads
                /\ UNCHANGED <<db, refused>>
           ELSE \* one df.to_sql on the engine
                \E dbOk \in BOOLEAN :
                   LET r == to_sql(db[name], Seg(1, df.nrows), inferred_schema,
                                   args.if_exists, dbOk)
                   IN  /\ db' = [db EXCEPT ![name] = r.table]
                       /\ pc' = print_then(IF r.ok THEN "exit0" ELSE "exit1")
                       /\ err' = IF r.ok THEN err_after_print(err)
                                 ELSE "ImportFailed"
                       /\ schema' = inferred_schema
                       /\ calls' = calls \o chk.reads
                                   \o <<CallToSql(name, args.if_exists, -1)>>
                       /\ refused' = (refused \/ ~dbOk)
    /\ UNCHANGED <<args, file, db0, tx, loopVars, sanVars, infVars, fixedVars>>

(***************************************************************************)
(* import_in_chunks(engine, table_name, file_path, schema, if_exists,      *)
(* chunk_size), src/utils.py 138-156, with args.table, file, schema,       *)
(* args.if_exists and chunk_size as its arguments                          *)
(***************************************************************************)
\* lines 142-143: entering the try and the with block opens the transaction
BeginChunks ==
    /\ pc = "import_in_chunks"
    /\ pc' = "chunks"
    /\ tx' = [open |-> TRUE, view |-> db]
    /\ chunk_i' = 0
    /\ calls' = Append(calls, CallBegin)
    /\ UNCHANGED <<args, file, db, db0, err, refused, schema, sheet_i, sheets,
                   successful_imports, sheetLog, sanVars, infVars, fixedVars>>

\* lines 144-156: one step of the with block, an iteration of the loop while
\* read_csv yields a chunk and the commit when it is exhausted; the call
\* ends by returning or by raising
ImportInChunks ==
    /\ pc = "chunks"
    /\ IF chunk_i < num_chunks(file.frame.nrows, chunk_size)
       THEN \E dbOk \in BOOLEAN :
               LET name == args.table
                   mode == chunk_mode(chunk_i, args.if_exists)
                   r == to_sql(tx.view[name],
                               chunk_seg(chunk_i, file.frame.nrows, chunk_size),
                               schema, mode, dbOk)
                   written == [tx.view EXCEPT ![name] = r.table]
                   ex == except_clause("ImportFailed")
               IN  /\ refused' = (refused \/ ~dbOk)
                   /\ IF r.ok
                      THEN /\ tx' = [tx EXCEPT !.view = written]
                           /\ chunk_i' = chunk_i + 1
                           /\ calls' = Append(calls,
                                              CallToSql(name, mode, chunk_i))
                           /\ UNCHANGED <<db, pc, err>>
                      ELSE \* the exception leaves the with block, which rolls
                           \* back; the except clause logs it and raises it
                           \* again
                           /\ db' = rollback(db, tx.view)
                           /\ tx' = NoTx
                           /\ pc' = IF ex.raised THEN "raised" ELSE "returned"
                           /\ err' = IF ex.raised THEN ex.error ELSE err
                           /\ calls' = calls
                                       \o <<CallToSql(name, mode, chunk_i),
                                            CallRollback>>
                           /\ UNCHANGED chunk_i
       ELSE \* the loop is exhausted: the with block commits
            /\ db' = commit(db, tx.view)
            /\ tx' = NoTx
            /\ pc' = "returned"
            /\ calls' = Append(calls, CallCommit)
            /\ UNCHANGED <<err, refused, chunk_i>>
    /\ UNCHANGED <<args, file, db0, schema, sheet_i, sheets,
                   successful_imports, sheetLog, sanVars, infVars, fixedVars>>

\* back in import_csv_file (src/import_data_pro.py 157-158) and main: a
\* return goes on to "Import completed" (line 80), a raise to main's except
\* clause (lines 82-85)
AfterChunks ==
    /\ pc \in {"returned", "raised"}
    /\ pc' = print_then(IF pc = "returned" THEN "exit0" ELSE "exit1")
    /\ err' = IF pc = "returned" THEN err_after_print(err) ELSE err
    /\ UNCHANGED <<args, file, db, db0, tx, calls, refused, schema,
                   loopVars, sanVars, infVars, fixedVars>>

(***************************************************************************)
(* import_excel_file, src/import_data_pro.py 87-129                        *)
(***************************************************************************)
\* line 89
LoadSheets ==
    /\ pc = "import" /\ is_excel(file)
    /\ IF ~file.readable
       THEN pc' = print_then("exit1") /\ err' = "ReadError" /\ UNCHANGED sheets
       ELSE pc' = "excel" /\ err' = err /\ sheets' = load_excel_sheets(file)
    /\ sheet_i' = 1
    /\ successful_imports' = 0
    /\ UNCHANGED <<args, file, db, db0, tx, calls, refused, schema, chunk_i,
                   sheetLog, sanVars, infVars, fixedVars>>

LogEntry(outcome, table, before, after, from, to) ==
    [outcome |-> outcome, table |-> table, before |-> before, after |-> after,
     calls_from |-> from, calls_to |-> to]

\* lines 92-126: one iteration of the loop over the sheets
ExcelSheet ==
    /\ pc = "excel" /\ sheet_i <= Len(sheets)
    /\ LET sh == sheets[sheet_i]
           df == sh.frame
           safe == sanitize_table_name(sh.name, MaxLength)
           full == compose_table_name(args.table, safe)
           sheet_schema == infer_schema(df.cols)
           chk == safety_checks(db, args, full, sheet_schema)
       IN  IF ~is_valid_sheet(df)
           THEN /\ sheetLog' = Append(sheetLog,
                     LogEntry("skipped", <<>>, NoTable, NoTable,
                              Len(calls), Len(calls)))
                /\ sheet_i' = sheet_i + 1
                /\ UNCHANGED <<db, pc, err, calls, refused, successful_imports>>
           ELSE IF chk.outcome = "TableExists"
           THEN /\ calls' = calls \o chk.reads
                /\ sheetLog' = Append(sheetLog,
                     LogEntry("exists", full, db[full], db[full],
                              Len(calls), Len(calls')))
                \* line 104 prints before the continue; a raise of the print
                \* leaves the loop for main's except clause
                /\ pc' = print_then("excel")
                /\ err' = err_after_print(err)
                /\ sheet_i' = IF stdout_encodes THEN sheet_i + 1 ELSE sheet_i
                /\ UNCHANGED <<db, refused, successful_imports>>
           ELSE IF chk.outcome = "SchemaMismatch"
           THEN \* check_schema_compatibility raises outside the try block
                /\ calls' = calls \o chk.reads
                /\ sheetLog' = Append(sheetLog,
                     LogEntry("mismatch", full, db[full], db[full],
                              Len(calls), Len(calls')))
                /\ pc' = print_then("exit1") /\ err' = "SchemaMismatch"
                /\ UNCHANGED <<db, refused, sheet_i, successful_imports>>
           ELSE \E dbOk \in BOOLEAN :
                   LET r == to_sql(db[full], Seg(1, df.nrows), sheet_schema,
                                   args.if_exists, dbOk)
                   IN  /\ db' = [db EXCEPT ![full] = r.table]
                       /\ calls' = calls \o chk.reads
                                   \o <<CallToSql(full, args.if_exists, -1)>>
                       /\ successful_imports' =
                             IF r.ok THEN successful_imports + 1
                             ELSE successful_imports
                       /\ sheetLog' = Append(sheetLog,
                             LogEntry(IF r.ok THEN "imported" ELSE "failed",
                                      full, db[full], r.table,
                                      Len(calls), Len(calls')))
                       \* lines 121 and 125 print; a raise of line 121 is
                       \* caught at 123, a raise of line 125 leaves the
                       \* loop for main's except clause
                       /\ pc' = print_then("excel")
                       /\ err' = err_after_print(err)
                       /\ sheet_i' = IF stdout_encodes THEN sheet_i + 1
                                     ELSE sheet_i
                       /\ refused' = (refused \/ ~dbOk)
    /\ UNCHANGED <<args, file, db0, tx, schema, chunk_i, sheets, sanVars,
                   infVars, fixedVars>>

\* lines 128-129, then main's line 80
ExcelDone ==
    /\ pc = "excel" /\ sheet_i > Len(sheets)
    /\ pc' = print_then("exit0")
    /\ err' = err_after_print(err)
    /\ UNCHANGED <<args, file, db, db0, tx, calls, refused, schema,
                   loopVars, sanVars, infVars, fixedVars>>

Next ==
    \/ DryRunStep
    \/ Setup
    \/ ImportCsvFile
    \/ BeginChunks
    \/ ImportInChunks
    \/ AfterChunks
    \/ LoadSheets
    \/ ExcelSheet
    \/ ExcelDone

Spec == Init /\ [][Next]_vars

(***************************************************************************)
(* Properties of the command-line run                                      *)
(***************************************************************************)
ToSqlCalls == SelectSeq(calls, LAMBDA c : c.op = "to_sql")

NoToSqlBetween(from, to) == \A i \in (from + 1)..to : calls[i].op # "to_sql"

\* import_in_chunks was entered
ChunkedRun == \E i \in 1..Len(calls) : calls[i].op = "begin"

\* main ended on the failure path: sys.exit(1) after its message, or the
\* traceback of the message's print when stdout cannot encode it
FailureExit == pc = (IF stdout_encodes THEN "exit1" ELSE "crashed")

\* import_csv_file got as far as its safety checks
CsvChecked ==
    /\ ~args.dry_run /\ ~is_excel(file)
    /\ pc \in {"import_in_chunks", "chunks", "returned", "raised", "exit0",
              "exit1", "crashed"}
    /\ err \notin {"NoUrl", "ConnectFailed", "ReadError", "Unsupported",
                   "InvalidInput"}

\* the destination has no reason to reject the file: under the invocation's
\* policy, the write of all its rows to the pre-call table goes through
DestinationAccepts ==
    write_table(db0[args.table], Seg(1, file.frame.nrows),
                infer_schema(file.frame.cols), args.if_exists, TRUE).ok

\* in a chunked load the to_sql calls issued are chunk 0, 1, 2, ... in this
\* order, all inside the one transaction (after its begin, before its commit
\* or rollback); chunk 0 carries the invocation's policy and every later
\* chunk carries append
ChunkCallsInOrder ==
    ChunkedRun =>
        LET w == ToSqlCalls
            b == CHOOSE i \in 1..Len(calls) : calls[i].op = "begin"
        IN  /\ \A i \in 1..Len(calls) : calls[i].op = "begin" => i = b
            /\ \A i \in 1..Len(calls) :
                  calls[i].op = "to_sql" =>
                      i > b /\ \A k \in (b + 1)..i : calls[k].op = "to_sql"
            /\ \A j \in 1..Len(w) :
                  /\ w[j].chunk = j - 1
                  /\ w[j].table = args.table
                  /\ w[j].if_exists =
                        (IF j = 1 THEN args.if_exists ELSE "append")

\* C2 as claimed: in a chunked load that a willing destination lets finish
\* (and whose messages stdout can encode),
\* every chunk of the file is written exactly once, in increasing index
\* order inside the one transaction, chunk 0 with the invocation's policy
\* and every later chunk with append.
C2_ChunkOrderAndModes ==
    (ChunkedRun /\ pc \in Exits /\ ~refused /\ DestinationAccepts
        /\ stdout_encodes) =>
        /\ ChunkCallsInOrder
        /\ Len(ToSqlCalls) = num_chunks(file.frame.nrows, ChunkSize)
        /\ calls[Len(calls)] = CallCommit

\* C4: under the fail policy a table that exists is never written.  CSV: the
\* import ends in a failure (TableExists when the file itself is valid), with
\* no to_sql call and the destination unchanged.  Workbook: the sheet is
\* rejected, no to_sql call is issued for it and its table stays as it was.
C4_FailPolicyRejects ==
    /\ (CsvChecked /\ args.if_exists = "fail" /\ db0[args.table].exists) =>
           FailureExit /\ err = "TableExists"
    /\ (~args.dry_run /\ ~is_excel(file) /\ args.if_exists = "fail"
           /\ db0[args.table].exists) =>
           db = db0 /\ ToSqlCalls = <<>> /\ ~tx.open
    /\ \A i \in 1..Len(sheetLog) :
           LET e == sheetLog[i]
           IN  (args.if_exists = "fail" /\ e.before.exists) =>
                   /\ e.outcome = "exists"
                   /\ e.after = e.before
                   /\ \A t \in Tables : db0[t].exists => db[t] = db0[t]
                   /\ NoToSqlBetween(e.calls_from, e.calls_to)

\* a valid CSV file rejected because its table exists
C4_Witness ==
    /\ CsvChecked /\ args.if_exists = "fail" /\ db0[args.table].exists
    /\ pc = "exit1" /\ validate_dataframe(file.frame)

\* the column names of a frame
ColumnNames(df) == DOMAIN df.cols

\* C5 as claimed: with strict_schema on and the table existing, the import
\* is rejected with a schema mismatch if and only if the column-name sets
\* differ, whatever the if-exists policy (shown where stdout encodes the
\* messages).
C5_StrictSchemaAsClaimed ==
    (CsvChecked /\ args.strict_schema /\ db0[args.table].exists
        /\ stdout_encodes) =>
        (err = "SchemaMismatch"
            <=> Keys(db0[args.table].cols) # ColumnNames(file.frame))

\* C5 (amended): with strict_schema on, the table existing and a policy other
\* than fail, the import is rejected with a schema mismatch, before any
\* write and leaving the destination unchanged, if and only if the
\* column-name sets differ; types alone never reject; and for a table that
\* does not exist check_schema_compatibility returns true and no mismatch is
\* reported.
C5_StrictSchema ==
    /\ (CsvChecked /\ args.strict_schema /\ db0[args.table].exists
           /\ args.if_exists # "fail") =>
           /\ err = "SchemaMismatch"
                 <=> Keys(db0[args.table].cols) # ColumnNames(file.frame)
           /\ err = "SchemaMismatch" =>
                 FailureExit /\ db = db0 /\ ToSqlCalls = <<>>
    /\ (CsvChecked /\ ~db0[args.table].exists) => err # "SchemaMismatch"
    /\ \A i \in 1..Len(sheetLog) :
           LET e == sheetLog[i]
           IN  /\ (args.strict_schema /\ args.if_exists # "fail"
                     /\ e.before.exists) =>
                      /\ e.outcome = "mismatch"
                            <=> Keys(e.before.cols)
                                    # ColumnNames(sheets[i].frame)
                      /\ e.outcome = "mismatch" =>
                            /\ e.after = e.before
                            /\ NoToSqlBetween(e.calls_from, e.calls_to)
               /\ ~e.before.exists => e.outcome # "mismatch"
    /\ \A t \in Tables :
           ~db[t].exists =>
               check_schema_compatibility(db, t, infer_schema(file.frame.cols))

\* a CSV file with a column the existing table lacks is rejected under append
C5_Witness ==
    /\ CsvChecked /\ args.strict_schema /\ args.if_exists = "append"
    /\ err = "SchemaMismatch" /\ pc = "exit1"
    /\ Keys(db0[args.table].cols) = {"id"}
    /\ ColumnNames(file.frame) = {"id", "name"}

\* C6 as claimed: whatever happens to one sheet (skipped, fail-policy
\* conflict, schema mismatch, write error), every remaining sheet of the
\* workbook is still processed: when the run ends, each loaded sheet has its
\* outcome, and each tabular one was checked and either written or rejected
\* (shown where stdout encodes the messages).
C6_PerSheetIsolation ==
    (~args.dry_run /\ is_excel(file) /\ pc \in Exits /\ stdout_encodes) =>
        \A i \in 1..Len(sheets) :
            /\ i <= Len(sheetLog)
            /\ is_valid_sheet(sheets[i].frame) =>
                  sheetLog[i].outcome
                      \in {"imported", "failed", "exists", "mismatch"}

\* what the analysis of a file should report
DryRunShouldSucceed(f) ==
    /\ f.readable
    /\ \/ f.ext \in {"xlsx", "xls"}
       \/ /\ f.ext = "csv"
          /\ f.frame.nrows > 0
          /\ f.frame.null_names = "none"
          /\ ~f.frame.bad_names

\* a dry run issues no destination call, opens no transaction, leaves the
\* destination unchanged and never reaches the import; when stdout encodes
\* the messages it exits with status 0 or 1 as the analysis ends
DryRunNoDestination ==
    args.dry_run =>
        /\ calls = <<>>
        /\ db = db0
        /\ ~tx.open
        /\ pc \in {"main", "exit0", "exit1", "crashed"}
        /\ (pc # "main" /\ stdout_encodes) =>
              pc = (IF DryRunShouldSucceed(file) THEN "exit0" ELSE "exit1")

\* C7 as claimed: a dry run issues no destination call, opens no
\* transaction, leaves the destination unchanged and never raises: the
\* process exits with status 0 when the analysis completes and 1 when any
\* step of it fails, and never reaches the import.
C7_DryRunIsolated ==
    args.dry_run =>
        /\ calls = <<>>
        /\ db = db0
        /\ ~tx.open
        /\ pc \in {"main", "exit0", "exit1"}
        /\ pc # "main" =>
              pc = (IF DryRunShouldSucceed(file) THEN "exit0" ELSE "exit1")

(***************************************************************************)
(* SpecChunks: import_in_chunks called on its own                          *)
(***************************************************************************)
MaxRows == 4
MaxChunkSize == 2

\* the SQLAlchemy type a caller would name for a column of the given
\* PostgreSQL type
SqlAlchemyType(t) ==
    CASE t = "BIGINT" -> "sqlalchemy.BigInteger"
      [] t = "DOUBLE PRECISION" -> "sqlalchemy.Float"
      [] t = "BOOLEAN" -> "sqlalchemy.Boolean"
      [] t = "TIMESTAMP" -> "sqlalchemy.DateTime"
      [] OTHER -> "sqlalchemy.Text"

\* the schema argument: the file's columns typed by infer_schema (strings),
\* or typed with SQLAlchemy types
SchemaArgs(cols) ==
    {infer_schema(cols),
     {<<p[1], SqlAlchemyType(p[2])>> : p \in infer_schema(cols)}}

\* the file argument: a CSV file of 0 to MaxRows rows
ChunkFiles ==
    {File("csv", TRUE, Frame(c, n, "none", FALSE, FALSE), 1, <<>>) :
        c \in {ColsA, ColsC}, n \in 0..MaxRows}

InitChunks ==
    /\ pandas_major \in PandasMajors
    /\ stdout_encodes \in BOOLEAN
    /\ args \in [table : {RequestedTable}, if_exists : Policies,
                 strict_schema : {FALSE}, dry_run : {FALSE}]
    /\ file \in ChunkFiles
    /\ schema \in SchemaArgs(file.frame.cols)
    /\ chunk_size \in 1..MaxChunkSize
    /\ db \in InitialDbs(file)
    /\ db0 = db
    /\ tx = NoTx
    /\ pc = "import_in_chunks" /\ err = "none" /\ calls = <<>>
    /\ refused = FALSE
    /\ chunk_i = 0 /\ sheet_i = 0 /\ sheets = <<>>
    /\ successful_imports = 0 /\ sheetLog = <<>>
    /\ sanIdle /\ infIdle

NextChunks ==
    \/ BeginChunks
    \/ ImportInChunks

SpecChunks == InitChunks /\ [][NextChunks]_vars

\* C1: a chunked load is all-or-nothing.  While the with block runs, the
\* destination shows its pre-call state; when a batch write fails, at
\* whatever chunk index, under whatever policy and pre-call state, the call
\* ends by raising, with the transaction rolled back and closed and every
\* table exactly as before the call (existence, columns, rows); a call that
\* returns has committed every chunk.
C1_AllOrNothing ==
    /\ pc \in {"import_in_chunks", "chunks", "returned", "raised"}
    /\ (pc \in {"import_in_chunks", "chunks"} => db = db0)
    /\ (pc = "chunks" => tx.open /\ ~refused)
    /\ (refused => pc = "raised")
    /\ (pc = "raised" =>
           /\ db = db0 /\ err = "ImportFailed" /\ ~tx.open
           /\ calls[Len(calls)] = CallRollback
           /\ ToSqlCalls[Len(ToSqlCalls)].chunk = chunk_i)
    /\ (pc = "returned" =>
           /\ err = "none" /\ ~tx.open
           /\ calls[Len(calls)] = CallCommit
           /\ Len(ToSqlCalls) = num_chunks(file.frame.nrows, chunk_size))

\* the destination refused chunk 2, after chunk 0 replaced an existing table
\* and chunk 1 was appended inside the transaction
C1_Witness ==
    /\ pc = "raised" /\ refused /\ chunk_i = 2
    /\ args.if_exists = "replace"
    /\ db0[RequestedTable] = Existing(ColsA)
    /\ db[RequestedTable] = Existing(ColsA)

\* the single-shot load (src/import_data_pro.py 149-155): one to_sql of the
\* whole file with the same schema and policy on the pre-call destination
SingleShot ==
    to_sql(db0[args.table], Seg(1, file.frame.nrows), schema,
           args.if_exists, TRUE)

\* C3: a chunked load that succeeds leaves the table with the row count and
\* the column set that the single-shot load of the same rows, schema and
\* policy on the same pre-call destination leaves, for every chunk size and
\* number of chunks, and that single-shot load succeeds too; no other table
\* changes.
C3_ChunkedEqualsSingleShot ==
    pc = "returned" =>
        /\ SingleShot.ok
        /\ db[args.table].exists
        /\ RowCount(db[args.table].rows) = RowCount(SingleShot.table.rows)
        /\ Keys(db[args.table].cols) = Keys(SingleShot.table.cols)
        /\ \A t \in Tables \ {args.table} : db[t] = db0[t]

\* three chunks appended to a table that held a row
C3_Witness ==
    /\ pc = "returned" /\ chunk_i = 3
    /\ args.if_exists = "append" /\ db0[RequestedTable].exists
    /\ RowCount(db[RequestedTable].rows) = file.frame.nrows + 1

(***************************************************************************)
(* SpecSan: the sanitizer on bounded names                                 *)
(***************************************************************************)
MaxPre == 1
MaxSuf == 2

\* a lower-case letter, an upper-case letter, a digit, the underscore and a
\* character outside [a-zA-Z0-9_]
InChars == {"a", "B", "7", "_", "-"}

\* lengths of the run of letters in the middle of a name: none, and around
\* the truncation at MaxLength with and without the "sheet_" prefix
FillLens == {0, MaxLength - 6, MaxLength - 2, MaxLength - 1, MaxLength}

SanNames ==
    {p \o Rep("a", n) \o q :
        p \in SeqUpTo(InChars, MaxPre), n \in FillLens,
        q \in SeqUpTo(InChars, MaxSuf)}

ReqTables == {<<"t">>, <<"T">>, <<"m", "y", "-", "t">>}

InitSan ==
    /\ sanPc = "start"
    /\ sheetName \in SanNames
    /\ reqTable \in ReqTables
    /\ safe_name = <<>> /\ safe_twice = <<>> /\ full_table_name = <<>>
    /\ runIdle /\ infIdle
    /\ pandas_major \in PandasMajors
    /\ stdout_encodes \in BOOLEAN

\* src/import_data_pro.py 97
Sanitize ==
    /\ sanPc = "start"
    /\ safe_name' = sanitize_table_name(sheetName, MaxLength)
    /\ sanPc' = "sanitized"
    /\ UNCHANGED <<sheetName, reqTable, safe_twice, full_table_name,
                   runVars, infVars, fixedVars>>

\* src/import_data_pro.py 98; a workbook's sheet has a name
Compose ==
    /\ sanPc = "sanitized"
    /\ sheetName # <<>>
    /\ full_table_name = <<>>
    /\ full_table_name' = compose_table_name(reqTable, safe_name)
    /\ UNCHANGED <<sanPc, sheetName, reqTable, safe_name, safe_twice,
                   runVars, infVars, fixedVars>>

\* the sanitizer applied to its own output
SanitizeAgain ==
    /\ sanPc = "sanitized"
    /\ safe_twice = <<>>
    /\ safe_twice' = sanitize_table_name(safe_name, MaxLength)
    /\ UNCHANGED <<sanPc, sheetName, reqTable, safe_name, full_table_name,
                   runVars, infVars, fixedVars>>

NextSan ==
    \/ Sanitize
    \/ Compose
    \/ SanitizeAgain

SpecSan == InitSan /\ [][NextSan]_vars

\* C8 as claimed: sanitize is idempotent, sanitize(sanitize(x)) = sanitize(x)
\* for every input x (the sanitizer never returns the empty string, so an
\* empty safe_twice is one not computed yet).
C8_SanitizeIdempotent == safe_twice # <<>> => safe_twice = safe_name

\* C9 as claimed: every table identifier the import writes to, the output of
\* sanitize and the sheet table name <requestedTable>_<sanitizedSheetName>,
\* is at most 63 characters long, lower-case and matches [a-z_][a-z0-9_]*.
C9_TableIdentifiers ==
    /\ sanPc = "sanitized" => IsIdentifier(safe_name)
    /\ full_table_name # <<>> => IsIdentifier(full_table_name)

\* the half of C9 that is about sanitize alone
SanitizeOutputIsIdentifier == sanPc = "sanitized" => IsIdentifier(safe_name)

(***************************************************************************)
(* SpecInfer: the type inferencer on bounded columns                       *)
(***************************************************************************)
MaxTail == 2

\* a date such as 2024-01-31
DateCell == [na |-> FALSE, int |-> FALSE, float |-> FALSE, date |-> "iso"]

\* a column is a run of one cell, none or just below or at the sample size,
\* followed by a few cells of any kind
FillCells == {NA, IntCell, DateCell}
FillCounts == {SampleSize - 1, SampleSize}

ColumnVals ==
    {Rep(c, n) \o t :
        c \in FillCells, n \in FillCounts,
        t \in SeqUpTo(ValueCells \cup {NA}, MaxTail)}
    \cup SeqUpTo(ValueCells \cup {NA}, MaxTail)

Columns ==
    {[dtype |-> "object", vals |-> v] : v \in ColumnVals}
    \cup {[dtype |-> d, vals |-> v] :
             d \in Dtypes \ {"object"}, v \in SeqUpTo({NA, TextCell}, 1)}

InitInfer ==
    /\ infPc = "start"
    /\ column \in Columns
    /\ inferred = "-"
    /\ runIdle /\ sanIdle
    /\ pandas_major \in PandasMajors
    /\ stdout_encodes \in BOOLEAN

\* infer_schema's call of infer_column_type on one column
InferColumn ==
    /\ infPc = "start"
    /\ inferred' = infer_column_type(column)
    /\ infPc' = "done"
    /\ UNCHANGED <<column, runVars, sanVars, fixedVars>>

NextInfer == InferColumn

SpecInfer == InitInfer /\ [][NextInfer]_vars

\* the positions of the first SampleSize non-missing cells
SampledPositions(vals) ==
    {i \in 1..Len(vals) :
        /\ vals[i] # NA
        /\ Cardinality({j \in 1..i : vals[j] # NA}) <= SampleSize}

ExpectedType(col) ==
    LET S == SampledPositions(col.vals)
    IN  CASE col.dtype = "int64" -> "BIGINT"
          [] col.dtype = "float64" -> "DOUBLE PRECISION"
          [] col.dtype = "bool" -> "BOOLEAN"
          [] col.dtype = "datetime64" -> "TIMESTAMP"
          [] OTHER ->
               IF S = {} THEN "TEXT"
               ELSE IF \A i \in S : col.vals[i].int THEN "BIGINT"
               ELSE IF \A i \in S : col.vals[i].float THEN "DOUBLE PRECISION"
               ELSE IF \A i \in S : col.vals[i].date # "none"
                    THEN "TIMESTAMP"
               ELSE "TEXT"

\* C10 as claimed: infer_column_type is the ordered fallback.  A native
\* integer, float, boolean or date/time column maps to BIGINT, DOUBLE
\* PRECISION, BOOLEAN, TIMESTAMP; otherwise, over the first 100 non-missing
\* values, BIGINT if all match the integer pattern, else DOUBLE PRECISION if
\* all parse as floats, else TIMESTAMP if all parse as dates (each value is
\* a date in some format), else TEXT, and TEXT for an empty sample.  A
\* sample of integer strings gives BIGINT, and one sampled value that is
\* neither a number nor a date makes it TEXT.
C10_InferType ==
    infPc = "done" =>
        LET S == SampledPositions(column.vals)
        IN  /\ inferred = ExpectedType(column)
            /\ (column.dtype = "object" /\ S # {}
                  /\ \A i \in S : column.vals[i].int) => inferred = "BIGINT"
            /\ (column.dtype = "object"
                  /\ \E i \in S : column.vals[i] = TextCell)
                  => inferred = "TEXT"

\* the sampled values are all dates, but not all in one format
MixedDateFormats(col) ==
    LET S == SampledPositions(col.vals)
    IN  /\ col.dtype = "object"
        /\ \A i \in S : col.vals[i].date # "none"
        /\ \E i, j \in S : col.vals[i].date # col.vals[j].date

\* apart from dates in mixed formats read by pandas 2.x, infer_column_type
\* is the ordered fallback
InferTypeOrderedFallback ==
    (infPc = "done" /\ ~(pandas_major >= 2 /\ MixedDateFormats(column))) =>
        inferred = ExpectedType(column)

====
